---- MODULE Spec2Model ----
(***************************************************************************)
(* Card Service (app.py): four Flask handlers over one PostgreSQL table,   *)
(* business_cards.  Each handler is modelled statement by statement, so    *)
(* that two workers interleave at the points where the code talks to the  *)
(* store and every store call may raise into the handler's except clause. *)
(* Strings are sequences of one-character strings.                         *)
(***************************************************************************)
EXTENDS Integers, Sequences, FiniteSets, TLC

(***************************************************************************)
(* rows      the committed rows of business_cards                          *)
(* seq       the last id the store has drawn for the id column             *)
(* clock     the store's clock, read for the dt column                     *)
(* requests  the bodies the clients post to /process-card                  *)
(* pc        per worker, the statement its handler is about to execute     *)
(* op        per worker, the handler it runs                               *)
(* req       per worker, the decoded body of the request (data)            *)
(* cid       per worker, card_id: the path parameter or the RETURNING id   *)
(* conn      per worker, its connection: "none", "open" or "closed"        *)
(* pending   per worker, the row inserted in its connection's transaction  *)
(* result    per worker, the rows its cursor holds after a SELECT          *)
(* resp      per worker, the response it sent last                         *)
(* tries     per worker, the INSERT statements its request has executed    *)
(* since     per worker, the last id drawn when its create request arrived *)
(***************************************************************************)
VARIABLES rows, seq, clock, requests, pc, op, req, cid, conn, pending,
          result, resp, tries, since

vars == <<rows, seq, clock, requests, pc, op, req, cid, conn, pending,
          result, resp, tries, since>>

\* Bound: number of INSERT statements the store executes in one behaviour.
MaxCards == 2

\* The server dispatches requests to concurrent workers (threads/processes).
Workers == {"w1", "w2"}

\* The eight fields process_business_card reads from the request body.
Fields == {"name", "email", "phone", "company", "website", "title", "address", "notes"}

\* Characters str.strip() removes.
Whitespace == {" ", "\t", "\n", "\r"}

(***************************************************************************)
(* String helpers                                                          *)
(***************************************************************************)
RECURSIVE lstrip(_)
lstrip(s) ==
  IF s = <<>> THEN <<>>
  ELSE IF Head(s) \in Whitespace THEN lstrip(Tail(s)) ELSE s

RECURSIVE rstrip(_)
rstrip(s) ==
  IF s = <<>> THEN <<>>
  ELSE IF s[Len(s)] \in Whitespace THEN rstrip(SubSeq(s, 1, Len(s) - 1)) ELSE s

\* str.strip()
strip(s) == rstrip(lstrip(s))

\* "\n".join(parts)
RECURSIVE join(_)
join(parts) ==
  IF parts = <<>> THEN <<>>
  ELSE IF Len(parts) = 1 THEN parts[1]
  ELSE parts[1] \o <<"\n">> \o join(Tail(parts))

TitleLabel == <<"T", "i", "t", "l", "e", ":", " ">>
AddressLabel == <<"A", "d", "d", "r", "e", "s", "s", ":", " ">>
NotesLabel == <<"N", "o", "t", "e", "s", ":", " ">>

(***************************************************************************)
(* Request bodies: a body is a set of <<field, value>> pairs (a JSON       *)
(* object or a form dict, both decoded to a dict of strings).              *)
(***************************************************************************)
\* data.get(k, '')
get(data, k) ==
  IF \E p \in data : p[1] = k THEN (CHOOSE p \in data : p[1] = k)[2] ELSE <<>>

\* data.get(k, '').strip()
field(data, k) == strip(get(data, k))

\* Variant: every sub-field contributes its line, empty or not.
notes_parts_unconditional(data) ==
  <<TitleLabel \o field(data, "title"), AddressLabel \o field(data, "address"),
    NotesLabel \o field(data, "notes")>>

\* lines 94-102: the combined notes column
notes_parts(data) ==
  (IF field(data, "title") # <<>> THEN <<TitleLabel \o field(data, "title")>> ELSE <<>>)
  \o (IF field(data, "address") # <<>> THEN <<AddressLabel \o field(data, "address")>> ELSE <<>>)
  \o (IF field(data, "notes") # <<>> THEN <<NotesLabel \o field(data, "notes")>> ELSE <<>>)

notes(data) == join(notes_parts(data))

\* Variant: the validation looks at the fields before they are trimmed.
has_key_field_untrimmed(data) ==
  \E k \in {"name", "email", "phone", "company"} : get(data, k) # <<>>

\* line 88: any([name, email, phone, company])
has_key_field(data) ==
  \E k \in {"name", "email", "phone", "company"} : field(data, k) # <<>>

\* One letter per field, so that every column carries a distinguishable value.
Letter(f) ==
  CASE f = "name" -> "n" [] f = "email" -> "e" [] f = "phone" -> "p"
    [] f = "company" -> "c" [] f = "website" -> "w" [] f = "title" -> "t"
    [] f = "address" -> "a" [] OTHER -> "o"

\* A field is absent (0), whitespace only (1), or a padded value with an
\* inner blank (2).
Shapes == 0..2
Value(f, shape) ==
  IF shape = 1 THEN <<" ", "\t">> ELSE <<" ", Letter(f), " ", Letter(f), "\n">>

Body(c) == {<<f, Value(f, c[f])>> : f \in {g \in Fields : c[g] # 0}}

\* Every set of non-blank fields, the blank fields of a body being either all
\* absent or all whitespace only.
AllRequests == {Body(c) : c \in [Fields -> {0, 2}] \cup [Fields -> {1, 2}]}

\* A plain valid body: a name and nothing else.
SeedBody == {<<"name", <<"s">>>>}

\* The bodies of a session of concurrent clients: name and notes, each
\* absent or padded.
SessionRequests ==
  {Body(c) : c \in {d \in [Fields -> Shapes] :
                      /\ \A f \in Fields \ {"name", "notes"} : d[f] = 0
                      /\ \A f \in {"name", "notes"} : d[f] # 1}}

(***************************************************************************)
(* The store: the committed rows of business_cards, the id sequence and    *)
(* the clock behind the dt column.                                         *)
(***************************************************************************)
\* INSERT INTO business_cards (...) VALUES (...) RETURNING id: the store
\* draws the id from its sequence and dt from its clock.
new_row(data, id, dt) ==
  [id |-> id,
   full_name |-> field(data, "name"),
   email |-> field(data, "email"),
   phone |-> field(data, "phone"),
   company_name |-> field(data, "company"),
   website |-> field(data, "website"),
   notes |-> notes(data),
   dt |-> dt]

next_id == seq + 1

\* Variant: ORDER BY dt (ascending).
RECURSIVE order_by_dt_asc(_)
order_by_dt_asc(S) ==
  IF S = {} THEN <<>>
  ELSE LET r == CHOOSE x \in S : \A y \in S : x.dt <= y.dt
       IN <<r>> \o order_by_dt_asc(S \ {r})

\* ORDER BY dt DESC
RECURSIVE order_by_dt_desc(_)
order_by_dt_desc(S) ==
  IF S = {} THEN <<>>
  ELSE LET r == CHOOSE x \in S : \A y \in S : y.dt <= x.dt
       IN <<r>> \o order_by_dt_desc(S \ {r})

\* SELECT ... FROM business_cards ORDER BY dt DESC
select_all == order_by_dt_desc(rows)

\* SELECT * FROM business_cards WHERE id = %s
select_by_id(id) == order_by_dt_desc({r \in rows : r.id = id})

(***************************************************************************)
(* Responses                                                               *)
(***************************************************************************)
NoResponse ==
  [status |-> 0, error |-> "", message |-> "", id |-> 0,
   data |-> {}, cards |-> <<>>, count |-> 0]

ValidationError == "At least one of name, email, phone, or company is required"

\* Variant: the echo carries the combined notes that were stored.
echo_stored_notes(data) ==
  {<<"name", field(data, "name")>>, <<"email", field(data, "email")>>,
   <<"phone", field(data, "phone")>>, <<"company", field(data, "company")>>,
   <<"website", field(data, "website")>>, <<"title", field(data, "title")>>,
   <<"address", field(data, "address")>>, <<"notes", notes(data)>>}

\* lines 137-146: the echo of the eight trimmed inputs
echo(data) ==
  {<<"name", field(data, "name")>>, <<"email", field(data, "email")>>,
   <<"phone", field(data, "phone")>>, <<"company", field(data, "company")>>,
   <<"website", field(data, "website")>>, <<"title", field(data, "title")>>,
   <<"address", field(data, "address")>>, <<"notes", field(data, "notes")>>}

\* Each handler's 500 message, without the str(e) it ends with.
error_prefix(o) ==
  CASE o = "create" -> "Save failed"
    [] o = "list" -> "Failed to fetch cards"
    [] OTHER -> "Failed to fetch card"

error_response(o) ==
  [NoResponse EXCEPT !.status = 500, !.error = error_prefix(o)]

\* The path ids a client asks for, one beyond the ids the store can assign.
CardIds == 1..(MaxCards + 1)

\* The statements of a handler that call into the store and may raise.
StoreSteps == {"connect", "cursor", "execute", "fetch", "commit", "cur_close", "conn_close"}

Idle(w) == pc[w] \in {"idle", "returned"}

\* A worker picks up the next request: the locals of the last one are gone.
Enter(w, o, data, id, first) ==
  /\ op' = [op EXCEPT ![w] = o]
  /\ req' = [req EXCEPT ![w] = data]
  /\ cid' = [cid EXCEPT ![w] = id]
  /\ pc' = [pc EXCEPT ![w] = first]
  /\ conn' = [conn EXCEPT ![w] = "none"]
  /\ pending' = [pending EXCEPT ![w] = <<>>]
  /\ tries' = [tries EXCEPT ![w] = 0]
  /\ since' = [since EXCEPT ![w] = IF first = "connect" /\ o = "create" THEN seq ELSE 0]
  /\ UNCHANGED result

Goto(w, label) == pc' = [pc EXCEPT ![w] = label]

\* The handler returns: the response goes out and the cursor's buffer dies
\* with the frame.
Return(w, r) ==
  /\ pc' = [pc EXCEPT ![w] = "returned"]
  /\ resp' = [resp EXCEPT ![w] = r]
  /\ result' = [result EXCEPT ![w] = <<>>]
  /\ since' = [since EXCEPT ![w] = 0]

\* The state after start-up: an empty table, the workers in `up` waiting for
\* requests, the clients sending the bodies in `bodies`.
InitWith(bodies, up) ==
  /\ rows = {}
  /\ seq = 0
  /\ clock = 0
  /\ requests = bodies
  /\ pc = [w \in Workers |-> IF w \in up THEN "idle" ELSE "down"]
  /\ op = [w \in Workers |-> "none"]
  /\ req = [w \in Workers |-> {}]
  /\ cid = [w \in Workers |-> 0]
  /\ conn = [w \in Workers |-> "none"]
  /\ pending = [w \in Workers |-> <<>>]
  /\ result = [w \in Workers |-> <<>>]
  /\ resp = [w \in Workers |-> NoResponse]
  /\ tries = [w \in Workers |-> 0]
  /\ since = [w \in Workers |-> 0]

Init == InitWith(SessionRequests, Workers)

(***************************************************************************)
(* GET /                                                                   *)
(***************************************************************************)
health_check(w) ==
  /\ Idle(w)
  /\ Enter(w, "health", {}, 0, "returned")
  /\ resp' = [resp EXCEPT ![w] = [NoResponse EXCEPT !.status = 200, !.message = "healthy"]]
  /\ UNCHANGED <<rows, seq, clock, requests>>

(***************************************************************************)
(* POST /process-card                                                      *)
(***************************************************************************)
\* lines 68-102: decode the body, trim the fields, validate, build the notes
process_business_card(w) ==
  /\ Idle(w)
  /\ \E data \in requests :
       IF ~has_key_field(data)
       THEN /\ Enter(w, "create", data, 0, "returned")
            /\ resp' = [resp EXCEPT ![w] =
                          [NoResponse EXCEPT !.status = 400, !.error = ValidationError]]
       ELSE /\ seq + Cardinality({v \in Workers : op[v] = "create" /\ tries[v] = 0
                                    /\ pc[v] \in {"connect", "cursor", "execute"}}) < MaxCards
            /\ Enter(w, "create", data, 0, "connect")
            /\ resp' = [resp EXCEPT ![w] = NoResponse]
  /\ UNCHANGED <<rows, seq, clock, requests>>

\* line 13-24 (called at 105, 157, 183): get_db_connection()
get_db_connection(w) ==
  /\ pc[w] = "connect"
  /\ conn' = [conn EXCEPT ![w] = "open"]
  /\ Goto(w, "cursor")
  /\ UNCHANGED <<rows, seq, clock, requests, op, req, cid, pending, result, resp,
                 tries, since>>

\* lines 106, 158, 184: cur = conn.cursor()
cursor(w) ==
  /\ pc[w] = "cursor"
  /\ Goto(w, "execute")
  /\ UNCHANGED <<rows, seq, clock, requests, op, req, cid, conn, pending, result,
                 resp, tries, since>>

\* Variant: the id is computed from the rows visible to the connection
\* instead of being drawn by the store.
execute_insert_counted_id(w) ==
  /\ pc[w] = "execute" /\ op[w] = "create"
  /\ pending' = [pending EXCEPT ![w] = <<new_row(req[w], Cardinality(rows) + 1, clock)>>]
  /\ seq' = next_id
  /\ clock' = clock + 1
  /\ tries' = [tries EXCEPT ![w] = tries[w] + 1]
  /\ since' = [since EXCEPT ![w] = 0]
  /\ Goto(w, "fetch")
  /\ UNCHANGED <<rows, requests, op, req, cid, conn, result, resp>>

\* line 124: cur.execute(insert_sql, data_to_save), inside the connection's
\* transaction: the row is not visible to other connections before commit.
execute_insert(w) ==
  /\ pc[w] = "execute" /\ op[w] = "create"
  /\ pending' = [pending EXCEPT ![w] = <<new_row(req[w], next_id, clock)>>]
  /\ seq' = next_id
  /\ clock' = clock + 1
  /\ tries' = [tries EXCEPT ![w] = tries[w] + 1]
  /\ since' = [since EXCEPT ![w] = 0]
  /\ Goto(w, "fetch")
  /\ UNCHANGED <<rows, requests, op, req, cid, conn, result, resp>>

\* line 125: card_id = cur.fetchone()['id']
fetch_id(w) ==
  /\ pc[w] = "fetch" /\ op[w] = "create"
  /\ cid' = [cid EXCEPT ![w] = pending[w][1].id]
  /\ Goto(w, "commit")
  /\ UNCHANGED <<rows, seq, clock, requests, op, req, conn, pending, result, resp,
                 tries, since>>

\* line 127: conn.commit()
commit(w) ==
  /\ pc[w] = "commit"
  /\ rows' = rows \cup {pending[w][1]}
  /\ Goto(w, "cur_close")
  /\ UNCHANGED <<seq, clock, requests, op, req, cid, conn, pending, result, resp,
                 tries, since>>

\* lines 128, 167, 191: cur.close()
cur_close(w) ==
  /\ pc[w] = "cur_close"
  /\ Goto(w, "conn_close")
  /\ UNCHANGED <<rows, seq, clock, requests, op, req, cid, conn, pending, result,
                 resp, tries, since>>

\* lines 129, 168, 192: conn.close(), after which the handler builds its
\* response and returns
conn_close_return(w, r) ==
  /\ pc[w] = "conn_close"
  /\ conn' = [conn EXCEPT ![w] = "closed"]
  /\ Return(w, r)
  /\ UNCHANGED <<rows, seq, clock, requests, op, req, cid, pending, tries>>

\* lines 131-147: the 200 response of a create
create_response(w) ==
  [NoResponse EXCEPT !.status = 200,
                     !.message = "Business card saved successfully",
                     !.id = cid[w],
                     !.data = echo(req[w])]

\* lines 129-147
process_business_card_return(w) ==
  /\ op[w] = "create"
  /\ conn_close_return(w, create_response(w))

(***************************************************************************)
(* GET /cards                                                              *)
(***************************************************************************)
get_cards(w) ==
  /\ Idle(w)
  /\ Enter(w, "list", {}, 0, "connect")
  /\ resp' = [resp EXCEPT ![w] = NoResponse]
  /\ UNCHANGED <<rows, seq, clock, requests>>

\* lines 160-164: cur.execute(SELECT ... ORDER BY dt DESC)
execute_select_all(w) ==
  /\ pc[w] = "execute" /\ op[w] = "list"
  /\ result' = [result EXCEPT ![w] = select_all]
  /\ Goto(w, "fetch")
  /\ UNCHANGED <<rows, seq, clock, requests, op, req, cid, conn, pending, resp,
                 tries, since>>

\* lines 166, 190: cards = cur.fetchall() / card = cur.fetchone()
fetch(w) ==
  /\ pc[w] = "fetch" /\ op[w] \in {"list", "get"}
  /\ Goto(w, "cur_close")
  /\ UNCHANGED <<rows, seq, clock, requests, op, req, cid, conn, pending, result,
                 resp, tries, since>>

\* lines 170-173
get_cards_response(w) ==
  [NoResponse EXCEPT !.status = 200, !.cards = result[w], !.count = Len(result[w])]

\* lines 168-173
get_cards_return(w) ==
  /\ op[w] = "list"
  /\ conn_close_return(w, get_cards_response(w))

(***************************************************************************)
(* GET /cards/<int:card_id>                                                *)
(***************************************************************************)
get_card(w) ==
  /\ Idle(w)
  /\ \E id \in CardIds : Enter(w, "get", {}, id, "connect")
  /\ resp' = [resp EXCEPT ![w] = NoResponse]
  /\ UNCHANGED <<rows, seq, clock, requests>>

\* Variant: the statement removes the row it reads.
execute_select_and_delete(w) ==
  /\ pc[w] = "execute" /\ op[w] = "get"
  /\ result' = [result EXCEPT ![w] = select_by_id(cid[w])]
  /\ rows' = {r \in rows : r.id # cid[w]}
  /\ Goto(w, "fetch")
  /\ UNCHANGED <<seq, clock, requests, op, req, cid, conn, pending, resp,
                 tries, since>>

\* lines 186-188: cur.execute(SELECT * ... WHERE id = %s)
execute_select_by_id(w) ==
  /\ pc[w] = "execute" /\ op[w] = "get"
  /\ result' = [result EXCEPT ![w] = select_by_id(cid[w])]
  /\ Goto(w, "fetch")
  /\ UNCHANGED <<rows, seq, clock, requests, op, req, cid, conn, pending, resp,
                 tries, since>>

\* Variant: the handler answers 200 without testing the fetched row.
get_card_response_unchecked(w) ==
  [NoResponse EXCEPT !.status = 200, !.cards = result[w]]

\* lines 194-197
get_card_response(w) ==
  IF result[w] = <<>>
  THEN [NoResponse EXCEPT !.status = 404, !.error = "Card not found"]
  ELSE [NoResponse EXCEPT !.status = 200, !.cards = result[w]]

\* lines 192-197
get_card_return(w) ==
  /\ op[w] = "get"
  /\ conn_close_return(w, get_card_response(w))

(***************************************************************************)
(* except Exception as e: any store call raises, the handler answers 500.  *)
(* The connection is whatever the failing statement left it.               *)
(* Variant first: the error body goes out without the 500 status.          *)
(***************************************************************************)
except_handler_status_200(w) ==
  /\ pc[w] \in StoreSteps
  /\ Return(w, [error_response(op[w]) EXCEPT !.status = 200])
  /\ UNCHANGED <<rows, seq, clock, requests, op, req, cid, conn, pending, tries>>

except_handler(w) ==
  /\ pc[w] \in StoreSteps
  /\ Return(w, error_response(op[w]))
  /\ UNCHANGED <<rows, seq, clock, requests, op, req, cid, conn, pending, tries>>

Next ==
  \E w \in Workers :
    \/ health_check(w)
    \/ process_business_card(w)
    \/ get_db_connection(w)
    \/ cursor(w)
    \/ execute_insert(w)
    \/ fetch_id(w)
    \/ commit(w)
    \/ cur_close(w)
    \/ process_business_card_return(w)
    \/ get_cards(w)
    \/ execute_select_all(w)
    \/ fetch(w)
    \/ get_cards_return(w)
    \/ get_card(w)
    \/ execute_select_by_id(w)
    \/ get_card_return(w)
    \/ except_handler(w)

Spec == Init /\ [][Next]_vars

(***************************************************************************)
(* Vocabulary of the properties.  Trimming and the notes column are stated *)
(* here by what they must be, not by how the handler computes them.        *)
(***************************************************************************)
KeyFields == {"name", "email", "phone", "company"}

Blank(s) == \A i \in 1..Len(s) : s[i] \in Whitespace

\* t is s without its leading and trailing whitespace
IsTrimOf(t, s) ==
  \E i \in 1..(Len(s) + 1), j \in 0..Len(s) :
    /\ t = SubSeq(s, i, j)
    /\ \A k \in 1..Len(s) : (k < i \/ k > j) => s[k] \in Whitespace
    /\ t # <<>> => (t[1] \notin Whitespace /\ t[Len(t)] \notin Whitespace)

\* the trimmed form of s, as the one substring of s that is its trim
Trimmed(s) ==
  CHOOSE t \in {SubSeq(s, i, j) : i \in 1..(Len(s) + 1), j \in 0..Len(s)} : IsTrimOf(t, s)

\* the value sent for field k, the empty string when the body has no such key
Sent(data, k) == IF \E p \in data : p[1] = k THEN (CHOOSE p \in data : p[1] = k)[2] ELSE <<>>

Newline == <<"\n">>

\* n is the label-joined concatenation of the non-empty ones of t, a, o
IsCombinedNotes(n, t, a, o) ==
  LET T == TitleLabel \o t
      A == AddressLabel \o a
      N == NotesLabel \o o
  IN CASE t # <<>> /\ a # <<>> /\ o # <<>> -> n = T \o Newline \o A \o Newline \o N
       [] t # <<>> /\ a # <<>> /\ o = <<>> -> n = T \o Newline \o A
       [] t # <<>> /\ a = <<>> /\ o # <<>> -> n = T \o Newline \o N
       [] t # <<>> /\ a = <<>> /\ o = <<>> -> n = T
       [] t = <<>> /\ a # <<>> /\ o # <<>> -> n = A \o Newline \o N
       [] t = <<>> /\ a # <<>> /\ o = <<>> -> n = A
       [] t = <<>> /\ a = <<>> /\ o # <<>> -> n = N
       [] OTHER -> n = <<>>

\* row r is what the create of body data must have stored
RowMatches(r, data) ==
  /\ IsTrimOf(r.full_name, Sent(data, "name"))
  /\ IsTrimOf(r.email, Sent(data, "email"))
  /\ IsTrimOf(r.phone, Sent(data, "phone"))
  /\ IsTrimOf(r.company_name, Sent(data, "company"))
  /\ IsTrimOf(r.website, Sent(data, "website"))
  /\ IsCombinedNotes(r.notes, Trimmed(Sent(data, "title")),
                       Trimmed(Sent(data, "address")), Trimmed(Sent(data, "notes")))

Returned(w, o) == pc[w] = "returned" /\ op[w] = o

\* worker w took the step
Stepped(w) ==
  <<pc[w], op[w], req[w], cid[w], conn[w], pending[w], result[w], resp[w], tries[w], since[w]>>
    # <<pc'[w], op'[w], req'[w], cid'[w], conn'[w], pending'[w], result'[w], resp'[w], tries'[w], since'[w]>>

\* the rows executed inside a transaction, committed or not
Pending == {pending[w][1] : w \in {v \in Workers : pending[v] # <<>>}}

\* A single-worker server whose clients send one body of AllRequests, any of
\* them; a body that cannot create a card comes with the seed body, so that
\* the store is not empty when it is rejected.
InitFields ==
  \E b \in AllRequests :
    InitWith(IF \A k \in KeyFields : Blank(Sent(b, k)) THEN {b, SeedBody} ELSE {b}, {"w1"})

SpecFields == InitFields /\ [][Next]_vars

(***************************************************************************)
(* C1: a create whose name, email, phone and company are all blank         *)
(* (absent, empty or whitespace only) is answered with the 400 validation  *)
(* error, whatever the other fields are, and leaves the rows of the store  *)
(* unchanged.                                                              *)
(***************************************************************************)
C1_BlankKeysRejected ==
  [][\A w \in Workers :
       (/\ Stepped(w) /\ Idle(w) /\ op'[w] = "create"
        /\ \A k \in KeyFields : Blank(Sent(req'[w], k)))
       => /\ pc'[w] = "returned"
          /\ resp'[w].status = 400
          /\ resp'[w].error = ValidationError
          /\ pending'[w] = <<>>
          /\ rows' = rows /\ seq' = seq]_vars

C1_Witness ==
  \E w \in Workers :
    /\ Returned(w, "create") /\ resp[w].status = 400
    /\ rows # {}
    /\ Sent(req[w], "name") # <<>>
    /\ ~Blank(Sent(req[w], "title")) /\ ~Blank(Sent(req[w], "website"))

(***************************************************************************)
(* C2: when a create with a non-blank key field has succeeded with id i,   *)
(* the store holds under i a row whose full_name, email, phone,            *)
(* company_name and website are the trimmed inputs and whose notes is the  *)
(* newline-joined "Title: ", "Address: ", "Notes: " lines of the non-empty *)
(* trimmed sub-fields, in that order; and a get-by-id answered 200 returns *)
(* exactly the row the store holds under the requested id.                 *)
(***************************************************************************)
C2_StoredRowMatchesInput ==
  \A w \in Workers :
    /\ (Returned(w, "create") /\ resp[w].status = 200)
         => /\ \E k \in KeyFields : ~Blank(Sent(req[w], k))
            /\ \E r \in rows : r.id = resp[w].id /\ RowMatches(r, req[w])
            /\ \A r \in rows : r.id = resp[w].id => RowMatches(r, req[w])
    /\ (Returned(w, "get") /\ resp[w].status = 200)
         => /\ Len(resp[w].cards) = 1
            /\ resp[w].cards[1].id = cid[w]
            /\ resp[w].cards[1] \in rows
            /\ \E data \in requests : RowMatches(resp[w].cards[1], data)

\* a get-by-id has returned the row of a body with a title and notes but no
\* address, whose blank fields are whitespace only
C2_Witness ==
  \E w \in Workers :
    /\ Returned(w, "get") /\ resp[w].status = 200
    /\ \E data \in requests \ {SeedBody} :
         /\ RowMatches(resp[w].cards[1], data)
         /\ ~Blank(Sent(data, "title")) /\ ~Blank(Sent(data, "notes"))
         /\ Sent(data, "address") # <<>> /\ Blank(Sent(data, "address"))
         /\ ~Blank(Sent(data, "website")) /\ ~Blank(Sent(data, "email"))

(***************************************************************************)
(* C9: the 200 response of a create echoes the eight trimmed inputs;       *)
(* data.notes is the trimmed notes sub-field alone, and it differs from    *)
(* the notes column of the stored row whenever title, address or notes is  *)
(* non-empty.                                                              *)
(***************************************************************************)
C9_EchoIsRawNotes ==
  \A w \in Workers :
    (Returned(w, "create") /\ resp[w].status = 200)
      => /\ resp[w].data = {<<k, Trimmed(Sent(req[w], k))>> : k \in Fields}
         /\ \A r \in rows :
              (/\ r.id = resp[w].id
               /\ \E k \in {"title", "address", "notes"} : ~Blank(Sent(req[w], k)))
              => <<"notes", r.notes>> \notin resp[w].data

\* a create with a title and no notes has succeeded: it echoes empty notes
\* while the row's notes column holds the title line
C9_Witness ==
  \E w \in Workers :
    /\ Returned(w, "create") /\ resp[w].status = 200
    /\ ~Blank(Sent(req[w], "title")) /\ Blank(Sent(req[w], "notes"))
    /\ <<"notes", <<>>>> \in resp[w].data
    /\ \E r \in rows : r.id = resp[w].id /\ r.notes # <<>>

(***************************************************************************)
(* C3: no handler has returned while the connection it opened is still     *)
(* open, on any exit path of create, list and get-by-id.                   *)
(***************************************************************************)
C3_ConnectionReleased ==
  \A w \in Workers : pc[w] = "returned" => conn[w] # "open"

(***************************************************************************)
(* C4: a valid create answers 200 or 500; a store call that raises makes   *)
(* it answer 500 with an error message; it executes its insert at most     *)
(* once; and the store changes only by gaining, in one step, the one       *)
(* complete row of the committing request under an id no row had.          *)
(***************************************************************************)
C4_FailureIs500AndAtomic ==
  [][/\ \A w \in Workers :
          /\ (Stepped(w) /\ op[w] = "create" /\ pc[w] \in StoreSteps /\ pc'[w] = "returned"
                /\ conn'[w] # "closed")
               => /\ resp'[w].status = 500
                  /\ resp'[w].error = "Save failed"
          /\ (Stepped(w) /\ op'[w] = "create" /\ pc'[w] = "returned"
                /\ \E k \in KeyFields : ~Blank(Sent(req'[w], k)))
               => resp'[w].status \in {200, 500}
          /\ (Stepped(w) /\ op'[w] = "create") => tries'[w] <= 1
      /\ \/ rows' = rows
         \/ \E c \in Workers :
              /\ Stepped(c) /\ op[c] = "create" /\ pending[c] # <<>>
              /\ rows' = rows \cup {pending[c][1]}
              /\ \A r \in rows : r.id # pending[c][1].id
              /\ RowMatches(pending[c][1], req[c])]_vars

\* one create has failed after its insert with nothing stored, another
\* before its insert, after an earlier create had stored a row
C4_Witness ==
  \E w, v \in Workers :
    /\ Returned(w, "create") /\ resp[w].status = 500
    /\ pending[w] # <<>> /\ pending[w][1] \notin rows
    /\ Returned(v, "create") /\ resp[v].status = 500
    /\ conn[v] = "open" /\ pending[v] = <<>>
    /\ rows # {}

(***************************************************************************)
(* C5: the ids of the rows are pairwise distinct, each insert draws an id  *)
(* greater than every id drawn before, and concurrent creates that succeed *)
(* each keep their own row under their own id: no row is lost or           *)
(* overwritten.                                                            *)
(***************************************************************************)
C5_OwnIncreasingIds ==
  /\ [](/\ \A a, b \in rows \cup Pending : a.id = b.id => a = b
        /\ \A w, v \in Workers :
             (/\ w # v
              /\ Returned(w, "create") /\ resp[w].status = 200
              /\ Returned(v, "create") /\ resp[v].status = 200)
             => /\ resp[w].id # resp[v].id
                /\ \E r \in rows : r.id = resp[w].id /\ RowMatches(r, req[w])
                /\ \E r \in rows : r.id = resp[v].id /\ RowMatches(r, req[v]))
  /\ [][/\ rows \subseteq rows'
        /\ \A w \in Workers :
             (pending'[w] # pending[w] /\ pending'[w] # <<>>)
               => \A r \in rows \cup Pending : pending'[w][1].id > r.id]_vars

\* two concurrent creates of different bodies have both succeeded, the one
\* that inserted first having committed last
C5_Witness ==
  \E w, v \in Workers :
    /\ w # v
    /\ Returned(w, "create") /\ resp[w].status = 200
    /\ Returned(v, "create") /\ resp[v].status = 200
    /\ req[w] # req[v]
    /\ resp[w].id = 1 /\ resp[v].id = 2

(***************************************************************************)
(* C6: get-by-id answers 200 with the matching row when the query found    *)
(* one, 404 "Card not found" exactly when the query ran and found none,    *)
(* and 500 whenever a store call raised: a store failure is never a 404    *)
(* and a missing row is never a 500 of its own.                            *)
(***************************************************************************)
C6_NotFoundVersusFailure ==
  /\ [](\A w \in Workers :
          Returned(w, "get")
            => /\ resp[w].status \in {200, 404, 500}
               /\ resp[w].status = 200
                    => /\ Len(resp[w].cards) = 1
                       /\ resp[w].cards[1] \in rows
                       /\ resp[w].cards[1].id = cid[w]
               /\ resp[w].status = 404
                    => /\ resp[w].error = "Card not found"
                       /\ conn[w] = "closed"
               /\ resp[w].status = 500 => resp[w].error = "Failed to fetch card")
  /\ [][\A w \in Workers :
          /\ (Stepped(w) /\ op[w] = "get" /\ pc[w] = "execute" /\ pc'[w] = "fetch")
               => /\ Len(result'[w]) <= 1
                  /\ {result'[w][i] : i \in 1..Len(result'[w])} = {r \in rows : r.id = cid[w]}
          /\ (Stepped(w) /\ op[w] = "get" /\ pc[w] = "conn_close" /\ conn'[w] = "closed")
               => /\ result[w] # <<>> => (resp'[w].status = 200 /\ resp'[w].cards = result[w])
                  /\ result[w] = <<>> => resp'[w].status = 404
          /\ (Stepped(w) /\ op[w] = "get" /\ pc[w] \in StoreSteps /\ pc'[w] = "returned"
                /\ conn'[w] # "closed")
               => resp'[w].status = 500]_vars

\* one get has answered 404 for an id the store never assigned while another
\* get, whose query raised, has answered 500 for an id that is stored
C6_Witness ==
  \E w, v \in Workers :
    /\ Returned(w, "get") /\ resp[w].status = 404 /\ cid[w] = MaxCards + 1
    /\ Returned(v, "get") /\ resp[v].status = 500 /\ conn[v] = "open"
    /\ \E r \in rows : r.id = cid[v]

(***************************************************************************)
(* C7: list answers with all rows of the table, most recent dt first, and  *)
(* count is the number of cards returned; a create whose request arrives   *)
(* after an earlier insert gets a later dt, so the later-created card is   *)
(* listed before the earlier one.                                          *)
(***************************************************************************)
C7_ListNewestFirst ==
  /\ [](\A w \in Workers :
          (Returned(w, "list") /\ resp[w].status = 200)
            => /\ resp[w].count = Len(resp[w].cards)
               /\ \A i, j \in 1..Len(resp[w].cards) :
                    i < j => /\ resp[w].cards[i].dt > resp[w].cards[j].dt
                             /\ resp[w].cards[i].id # resp[w].cards[j].id
               /\ \A i \in 1..Len(resp[w].cards) : resp[w].cards[i] \in rows)
  /\ [][\A w \in Workers :
          /\ (Stepped(w) /\ op[w] = "list" /\ pc[w] = "execute" /\ pc'[w] = "fetch")
               => {result'[w][i] : i \in 1..Len(result'[w])} = rows
          /\ (Stepped(w) /\ op[w] = "list" /\ pc[w] = "conn_close" /\ conn'[w] = "closed")
               => resp'[w].cards = result[w]
          /\ (pending'[w] # pending[w] /\ pending'[w] # <<>>)
               => \A r \in rows \cup Pending :
                    r.id <= since[w] => pending'[w][1].dt > r.dt]_vars

\* a list has returned two cards, the card created second first
C7_Witness ==
  \E w \in Workers :
    /\ Returned(w, "list") /\ resp[w].status = 200 /\ resp[w].count = 2
    /\ resp[w].cards[1].id = 2 /\ resp[w].cards[2].id = 1
    /\ resp[w].cards[1].notes # resp[w].cards[2].notes

(***************************************************************************)
(* C8: rows are never changed or removed; health check, list, get-by-id    *)
(* and rejected creates leave the store as it is; two get-by-id answers    *)
(* for the same id carry the same content.                                 *)
(***************************************************************************)
C8_RowsImmutable ==
  /\ [][/\ rows \subseteq rows'
        /\ \A w \in Workers :
             (/\ Stepped(w)
              /\ \/ op'[w] \in {"health", "list", "get"}
                 \/ op'[w] = "create" /\ resp'[w].status = 400)
             => rows' = rows /\ seq' = seq /\ clock' = clock]_vars
  /\ [](\A w, v \in Workers :
          (/\ Returned(w, "get") /\ resp[w].status = 200
           /\ Returned(v, "get") /\ resp[v].status = 200
           /\ cid[w] = cid[v])
          => resp[w].cards = resp[v].cards /\ resp[w].cards[1] \in rows)

\* two get-by-id requests for the same id have both answered 200 while the
\* store holds a second row
C8_Witness ==
  \E w, v \in Workers :
    /\ w # v
    /\ Returned(w, "get") /\ resp[w].status = 200
    /\ Returned(v, "get") /\ resp[v].status = 200
    /\ cid[w] = cid[v]
    /\ Cardinality(rows) = 2

(***************************************************************************)
(* C10: the answer of a create agrees with the store: the row of a create  *)
(* is in the store only if the create answers 200 with that row's id, and  *)
(* a create that answers 500 has added no row.                             *)
(***************************************************************************)
C10_AnswerAgreesWithStore ==
  \A w \in Workers :
    Returned(w, "create")
      => /\ (pending[w] # <<>> /\ pending[w][1] \in rows)
              => (resp[w].status = 200 /\ resp[w].id = pending[w][1].id)
         /\ resp[w].status = 500 => (pending[w] = <<>> \/ pending[w][1] \notin rows)

====
